---- MODULE Spec2Model ----
(***************************************************************************)
(* Chatjob backend (src/main.py, src/schemas.py): wallet top-up, chat      *)
(* start, messages and the end-of-chat settlement, run by concurrent       *)
(* request handlers against a shared document store.  Every store call     *)
(* (find_one, update_one, create_document) is one atomic step; a handler   *)
(* is a sequence of such steps and handlers of different requests          *)
(* interleave freely.                                                      *)
(*                                                                         *)
(* Money is counted in thousandths of a euro (1.20 EUR = 1200), time in    *)
(* seconds.  An Optional field is a set: {} is None, {v} is the value v.   *)
(* The updated_at stamps written next to wallet_eur and status carry no    *)
(* behaviour and are left out.  Amounts are taken where the float          *)
(* arithmetic is exact at this scale: balances and costs are whole cents,  *)
(* and a product minutes * rate is either short of a half-cent tie or an   *)
(* exactly representable one (multiples of 0.125).                         *)
(*                                                                         *)
(* Spec interleaves the handlers' store calls freely; SpecSeq serves the   *)
(* requests one after the other.                                           *)
(***************************************************************************)
EXTENDS Integers, Sequences, FiniteSets, Bags, TLC

VARIABLES users, chats, payment, message, clock, ticks, topups, pc, loc, ret

vars == <<users, chats, payment, message, clock, ticks, topups, pc, loc, ret>>

store == <<users, chats, payment, message>>

\* ---------------------------------------------------------------- bounds

MaxChats == 1
MaxTopups == 1
MaxTicks == 1
MaxMessages == 1

Procs == {"p1", "p2"}

\* One creator, one customer, and an id no user document has.
UserIds == {"cr", "cu", "ghost"}

\* Per-minute rates a creator may sign up with (any float >= 0): the seed
\* rates 1.20 and 0.90 (lines 252-253).
Rates == {900, 1200}

\* Top-up amounts a request may carry (any float).
Amounts == {0 - 500, 0, 4, 25000}

\* The clock advances by one of these steps (seconds).
TickSteps == {150}

None == {}

Some(v) == {v}

The(s) == CHOOSE v \in s : TRUE

\* ------------------------------------------------------- pure arithmetic

\* round(x, 2) on a value in thousandths: to the nearest cent, an exact tie
\* to the even cent (Python 3 rounds the exact binary value half-to-even).
Round2(x) ==
  LET q == x \div 10
      r == x % 10
  IN  IF r < 5 THEN 10 * q
      ELSE IF r > 5 THEN 10 * (q + 1)
      ELSE IF q % 2 = 0 THEN 10 * q ELSE 10 * (q + 1)

\* ceil(s / 60.0)
CeilMinutes(s) == 0 - ((0 - s) \div 60)

Max(a, b) == IF a >= b THEN a ELSE b

MinutesFloor(s) == Max(1, s \div 60)

\* minutes = max(1, ceil((now - started_dt).total_seconds() / 60.0))
Minutes(s) == Max(1, CeilMinutes(s))

\* total_cost = round(minutes * rate, 2)
TotalCost(minutes, rate) == Round2(minutes * rate)

\* --------------------------------------------------------------- records

NoLoc ==
  [op |-> "none", chat_id |-> 0, chat |-> None, elapsed |-> 0,
   minutes |-> 0, total_cost |-> 0, creator |-> None, customer |-> None,
   cust_balance |-> 0, new_cust |-> 0, user_id |-> "", amount_eur |-> 0,
   u |-> None, new_balance |-> 0]

NoRet == [code |-> 0, chat |-> None, wallet_eur |-> None]

\* User(...) as create_user and the seed store it: wallet_eur = 0.0
User(role, rate) == [role |-> role, rate_eur_per_min |-> rate, wallet_eur |-> 0]

\* Chat(...) as start_chat builds it
Chat(creator_id, customer_id, rate, started_at) ==
  [creator_id |-> creator_id, customer_id |-> customer_id, status |-> "active",
   rate_eur_per_min |-> rate, started_at |-> started_at, ended_at |-> None,
   total_minutes |-> None, total_cost_eur |-> None]

Payment(user_id, kind, amount_eur, chat_id) ==
  [user_id |-> user_id, kind |-> kind, amount_eur |-> amount_eur, chat_id |-> chat_id]

\* now_iso(): an ISO timestamp with the UTC offset
NowIso == [kind |-> "aware", t |-> clock]

\* What fromisoformat makes of a stored started_at: None and a number raise
\* TypeError, other text raises ValueError (both caught, the evaluation time
\* is used); a timestamp parses, with or without an offset.
StartedDt(started_at) ==
  IF started_at.kind \in {"aware", "naive"} THEN started_at
  ELSE [kind |-> "aware", t |-> clock]

\* Chat documents the store may hold when the service starts: any document
\* of the Chat schema (started_at is Optional[str]; the users collection is
\* not constrained by it).
StoredChats ==
  { Chat("cr", "cu", 900, [kind |-> "none", t |-> 0]),
    Chat("cr", "cu", 900, [kind |-> "number", t |-> 0]),
    Chat("cr", "cu", 900, [kind |-> "text", t |-> 0]),
    Chat("cr", "cu", 900, [kind |-> "naive", t |-> 0]),
    Chat("cr", "cu", 125, [kind |-> "aware", t |-> 0]),
    Chat("cr", "cu", 900, [kind |-> "aware", t |-> 140]),
    Chat("cr", "cu", 0, [kind |-> "aware", t |-> 60]),
    Chat("cr", "ghost", 900, [kind |-> "aware", t |-> 0]),
    Chat("ghost", "cu", 900, [kind |-> "aware", t |-> 0]) }

\* The users collection: the creator with the rate signed up with, and the
\* customer (whose rate create_user stores as None; it is never read).
Users(rate) ==
  [id \in {"cr", "cu"} |->
     IF id = "cr" THEN User("creator", rate) ELSE User("customer", 0)]

\* ------------------------------------------------------------------ init

Init ==
  /\ \/ /\ \E rate \in Rates : users = Users(rate)
        /\ chats = << >>
     \/ /\ users = Users(900)
        /\ \E c \in StoredChats : chats = <<c>>
  /\ payment = EmptyBag
  /\ message = << >>
  /\ clock = 0
  /\ ticks = 0
  /\ topups = 0
  /\ pc = [p \in Procs |-> "idle"]
  /\ loc = [p \in Procs |-> NoLoc]
  /\ ret = [p \in Procs |-> NoRet]

\* ------------------------------------------------------------- responses

Finish(p, l, code, chat, wallet) ==
  /\ pc' = [pc EXCEPT ![p] = "done"]
  /\ loc' = [loc EXCEPT ![p] = l]
  /\ ret' = [ret EXCEPT ![p] = [code |-> code, chat |-> chat, wallet_eur |-> wallet]]

Goto(p, l, label) ==
  /\ pc' = [pc EXCEPT ![p] = label]
  /\ loc' = [loc EXCEPT ![p] = l]
  /\ UNCHANGED ret

\* The response is sent and the handler's frame is gone.
Respond(p) ==
  /\ pc[p] = "done"
  /\ pc' = [pc EXCEPT ![p] = "idle"]
  /\ loc' = [loc EXCEPT ![p] = NoLoc]
  /\ ret' = [ret EXCEPT ![p] = NoRet]
  /\ UNCHANGED <<store, clock, ticks, topups>>

Tick ==
  /\ ticks < MaxTicks
  /\ \E d \in TickSteps : clock' = clock + d
  /\ ticks' = ticks + 1
  /\ UNCHANGED <<store, topups, pc, loc, ret>>

\* ---------------------------------------------------------- wallet_topup

\* Lines 119-127: the amount check, the user lookup, the new balance.
WalletTopupFindNoAmountCheck(p, user_id, amount_eur) ==
  /\ pc[p] = "idle"
  /\ LET l0 == [NoLoc EXCEPT !.op = "wallet_topup", !.user_id = user_id,
                             !.amount_eur = amount_eur]
     IN  IF user_id \notin DOMAIN users
         THEN Finish(p, l0, 404, None, None) /\ UNCHANGED topups
         ELSE /\ topups < MaxTopups
              /\ topups' = topups + 1
              /\ Goto(p, [l0 EXCEPT !.u = Some(users[user_id]),
                            !.new_balance = Round2(users[user_id].wallet_eur + amount_eur)],
                      "tu_update")
  /\ UNCHANGED <<store, clock, ticks>>

WalletTopupFind(p, user_id, amount_eur) ==
  /\ pc[p] = "idle"
  /\ LET l0 == [NoLoc EXCEPT !.op = "wallet_topup", !.user_id = user_id,
                             !.amount_eur = amount_eur]
     IN  IF amount_eur <= 0
         THEN Finish(p, l0, 400, None, None) /\ UNCHANGED topups
         ELSE IF user_id \notin DOMAIN users
         THEN Finish(p, l0, 404, None, None) /\ UNCHANGED topups
         ELSE /\ topups < MaxTopups
              /\ topups' = topups + 1
              /\ Goto(p, [l0 EXCEPT !.u = Some(users[user_id]),
                            !.new_balance = Round2(users[user_id].wallet_eur + amount_eur)],
                      "tu_update")
  /\ UNCHANGED <<store, clock, ticks>>

\* Line 128: $set wallet_eur to the balance computed from the earlier read.
WalletTopupUpdate(p) ==
  /\ pc[p] = "tu_update"
  /\ users' = [users EXCEPT ![loc[p].user_id].wallet_eur = loc[p].new_balance]
  /\ Goto(p, loc[p], "tu_pay")
  /\ UNCHANGED <<chats, payment, message, clock, ticks, topups>>

\* Lines 129-131: the payment record carries the amount as sent.
WalletTopupPay(p) ==
  /\ pc[p] = "tu_pay"
  /\ payment' = payment (+) SetToBag({Payment(loc[p].user_id, "topup", loc[p].amount_eur, None)})
  /\ Finish(p, loc[p], 200, None, Some(loc[p].new_balance))
  /\ UNCHANGED <<users, chats, message, clock, ticks, topups>>

\* ------------------------------------------------- start_chat, messages

\* Lines 145-158: both users are looked up by id and role; the rate is the
\* creator's.  A request that fails the lookup writes nothing.
StartChat(creator_id, customer_id) ==
  /\ Len(chats) < MaxChats
  /\ creator_id \in DOMAIN users /\ users[creator_id].role = "creator"
  /\ customer_id \in DOMAIN users /\ users[customer_id].role = "customer"
  /\ chats' = Append(chats, Chat(creator_id, customer_id,
                                 users[creator_id].rate_eur_per_min, NowIso))
  /\ UNCHANGED <<users, payment, message, clock, ticks, topups, pc, loc, ret>>

\* Lines 179-184: the chat must exist; its status is not looked at.  The
\* message's content and sent_at stamp are never read back by a handler
\* modelled here and are left out.
SendMessage(chat_id, sender_id) ==
  /\ Len(message) < MaxMessages
  /\ chat_id \in DOMAIN chats
  /\ message' = Append(message, [chat_id |-> chat_id, sender_id |-> sender_id])
  /\ UNCHANGED <<users, chats, payment, clock, ticks, topups, pc, loc, ret>>

\* -------------------------------------------------------------- end_chat

\* Lines 199-206 on the chat document read at line 192.
Settle(l0, chat) ==
  LET started_dt == StartedDt(chat.started_at)
      elapsed == clock - started_dt.t
      minutes == Minutes(elapsed)
  IN  [l0 EXCEPT !.chat = Some(chat), !.elapsed = elapsed,
                 !.minutes = minutes,
                 !.total_cost = TotalCost(minutes, chat.rate_eur_per_min)]

\* Lines 192-206: the lookup, the early return of an ended chat, the
\* computation.  Subtracting a timestamp without an offset from
\* datetime.now(timezone.utc) raises TypeError outside the try: a 500.
EndChatFindChatNoEndedCheck(p, chat_id) ==
  /\ pc[p] = "idle"
  /\ LET l0 == [NoLoc EXCEPT !.op = "end_chat", !.chat_id = chat_id]
     IN  IF chat_id \notin DOMAIN chats
         THEN Finish(p, l0, 404, None, None)
         ELSE LET chat == chats[chat_id]
              IN  IF StartedDt(chat.started_at).kind = "naive"
                  THEN Finish(p, [l0 EXCEPT !.chat = Some(chat)], 500, None, None)
                  ELSE Goto(p, Settle(l0, chat), "ec_find_creator")
  /\ UNCHANGED <<store, clock, ticks, topups>>

EndChatFindChat(p, chat_id) ==
  /\ pc[p] = "idle"
  /\ LET l0 == [NoLoc EXCEPT !.op = "end_chat", !.chat_id = chat_id]
     IN  IF chat_id \notin DOMAIN chats
         THEN Finish(p, l0, 404, None, None)
         ELSE LET chat == chats[chat_id]
              IN  IF chat.status = "ended"
                  THEN Finish(p, [l0 EXCEPT !.chat = Some(chat)], 200, Some(chat), None)
                  ELSE IF StartedDt(chat.started_at).kind = "naive"
                  THEN Finish(p, [l0 EXCEPT !.chat = Some(chat)], 500, None, None)
                  ELSE Goto(p, Settle(l0, chat), "ec_find_creator")
  /\ UNCHANGED <<store, clock, ticks, topups>>

FindUser(user_id) == IF user_id \in DOMAIN users THEN Some(users[user_id]) ELSE None

\* Line 212
EndChatFindCreator(p) ==
  /\ pc[p] = "ec_find_creator"
  /\ Goto(p, [loc[p] EXCEPT !.creator = FindUser(The(loc[p].chat).creator_id)],
          "ec_find_customer")
  /\ UNCHANGED <<store, clock, ticks, topups>>

\* Lines 213-221: a missing user is a 400; a balance below the cost is not
\* an error.
EndChatFindCustomerRejectDebt(p) ==
  /\ pc[p] = "ec_find_customer"
  /\ LET customer == FindUser(The(loc[p].chat).customer_id)
         l1 == [loc[p] EXCEPT !.customer = customer]
     IN  IF loc[p].creator = None \/ customer = None
         THEN Finish(p, l1, 400, None, None)
         ELSE IF The(customer).wallet_eur < loc[p].total_cost
         THEN Finish(p, [l1 EXCEPT !.cust_balance = The(customer).wallet_eur], 400, None, None)
         ELSE Goto(p, [l1 EXCEPT !.cust_balance = The(customer).wallet_eur,
                          !.new_cust = Round2(The(customer).wallet_eur - loc[p].total_cost)],
                   "ec_update_customer")
  /\ UNCHANGED <<store, clock, ticks, topups>>

EndChatFindCustomerEndsAnyway(p) ==
  /\ pc[p] = "ec_find_customer"
  /\ LET customer == FindUser(The(loc[p].chat).customer_id)
         l1 == [loc[p] EXCEPT !.customer = customer]
     IN  IF loc[p].creator = None \/ customer = None
         THEN /\ Finish(p, l1, 400, None, None)
              /\ chats' = [chats EXCEPT ![loc[p].chat_id].status = "ended"]
              /\ UNCHANGED <<users, payment, message>>
         ELSE /\ Goto(p, [l1 EXCEPT !.cust_balance = The(customer).wallet_eur,
                             !.new_cust = Round2(The(customer).wallet_eur - loc[p].total_cost)],
                      "ec_update_customer")
              /\ UNCHANGED store
  /\ UNCHANGED <<clock, ticks, topups>>

EndChatFindCustomer(p) ==
  /\ pc[p] = "ec_find_customer"
  /\ LET customer == FindUser(The(loc[p].chat).customer_id)
         l1 == [loc[p] EXCEPT !.customer = customer]
     IN  IF loc[p].creator = None \/ customer = None
         THEN Finish(p, l1, 400, None, None)
         ELSE Goto(p, [l1 EXCEPT !.cust_balance = The(customer).wallet_eur,
                          !.new_cust = Round2(The(customer).wallet_eur - loc[p].total_cost)],
                   "ec_update_customer")
  /\ UNCHANGED <<store, clock, ticks, topups>>

\* Line 222
EndChatUpdateCustomer(p) ==
  /\ pc[p] = "ec_update_customer"
  /\ users' = [users EXCEPT ![The(loc[p].chat).customer_id].wallet_eur = loc[p].new_cust]
  /\ Goto(p, loc[p], "ec_update_creator")
  /\ UNCHANGED <<chats, payment, message, clock, ticks, topups>>

\* Line 223: the creator's balance as read at line 212, plus the cost.
EndChatUpdateCreatorDebits(p) ==
  /\ pc[p] = "ec_update_creator"
  /\ users' = [users EXCEPT ![The(loc[p].chat).creator_id].wallet_eur =
                 Round2(The(loc[p].creator).wallet_eur - loc[p].total_cost)]
  /\ Goto(p, loc[p], "ec_pay_customer")
  /\ UNCHANGED <<chats, payment, message, clock, ticks, topups>>

EndChatUpdateCreator(p) ==
  /\ pc[p] = "ec_update_creator"
  /\ users' = [users EXCEPT ![The(loc[p].chat).creator_id].wallet_eur =
                 Round2(The(loc[p].creator).wallet_eur + loc[p].total_cost)]
  /\ Goto(p, loc[p], "ec_pay_customer")
  /\ UNCHANGED <<chats, payment, message, clock, ticks, topups>>

\* Line 226
EndChatPayCustomer(p) ==
  /\ pc[p] = "ec_pay_customer"
  /\ payment' = payment (+) SetToBag({Payment(The(loc[p].chat).customer_id, "settlement",
                                              0 - loc[p].total_cost, Some(loc[p].chat_id))})
  /\ Goto(p, loc[p], "ec_pay_creator")
  /\ UNCHANGED <<users, chats, message, clock, ticks, topups>>

\* Line 227
EndChatPayCreator(p) ==
  /\ pc[p] = "ec_pay_creator"
  /\ payment' = payment (+) SetToBag({Payment(The(loc[p].chat).creator_id, "settlement",
                                              loc[p].total_cost, Some(loc[p].chat_id))})
  /\ Goto(p, loc[p], "ec_update_chat")
  /\ UNCHANGED <<users, chats, message, clock, ticks, topups>>

\* Lines 230-239: an unconditional $set on the chat's id.
EndChatUpdateChat(p) ==
  /\ pc[p] = "ec_update_chat"
  /\ chats' = [chats EXCEPT ![loc[p].chat_id] =
                 [@ EXCEPT !.status = "ended", !.ended_at = Some(clock),
                           !.total_minutes = Some(loc[p].minutes),
                           !.total_cost_eur = Some(loc[p].total_cost)]]
  /\ Goto(p, loc[p], "ec_find_updated")
  /\ UNCHANGED <<users, payment, message, clock, ticks, topups>>

\* Lines 240-241
EndChatFindUpdated(p) ==
  /\ pc[p] = "ec_find_updated"
  /\ Finish(p, loc[p], 200, Some(chats[loc[p].chat_id]), None)
  /\ UNCHANGED <<store, clock, ticks, topups>>

\* ------------------------------------------------------------------ next

Next ==
  \/ \E p \in Procs, user_id \in {"cu", "ghost"}, amount_eur \in Amounts :
       WalletTopupFind(p, user_id, amount_eur)
  \/ \E p \in Procs : WalletTopupUpdate(p)
  \/ \E p \in Procs : WalletTopupPay(p)
  \/ \E creator_id \in UserIds, customer_id \in UserIds : StartChat(creator_id, customer_id)
  \/ \E chat_id \in 1..MaxChats, sender_id \in {"cu"} : SendMessage(chat_id, sender_id)
  \/ \E p \in Procs, chat_id \in 1..(MaxChats + 1) : EndChatFindChat(p, chat_id)
  \/ \E p \in Procs : EndChatFindCreator(p)
  \/ \E p \in Procs : EndChatFindCustomer(p)
  \/ \E p \in Procs : EndChatUpdateCustomer(p)
  \/ \E p \in Procs : EndChatUpdateCreator(p)
  \/ \E p \in Procs : EndChatPayCustomer(p)
  \/ \E p \in Procs : EndChatPayCreator(p)
  \/ \E p \in Procs : EndChatUpdateChat(p)
  \/ \E p \in Procs : EndChatFindUpdated(p)
  \/ \E p \in Procs : Respond(p)
  \/ Tick

\* Every interleaving of the handlers' store calls.
Spec == Init /\ [][Next]_vars

\* No request is in flight.
Quiet == \A q \in Procs : pc[q] = "idle"

\* Requests served one after the other: a handler starts only when no other
\* is in flight.
NextSeq ==
  \/ \E p \in Procs, user_id \in {"cu", "ghost"}, amount_eur \in Amounts :
       Quiet /\ WalletTopupFind(p, user_id, amount_eur)
  \/ \E p \in Procs : WalletTopupUpdate(p)
  \/ \E p \in Procs : WalletTopupPay(p)
  \/ \E creator_id \in UserIds, customer_id \in UserIds :
       Quiet /\ StartChat(creator_id, customer_id)
  \/ \E chat_id \in 1..MaxChats, sender_id \in {"cu"} : Quiet /\ SendMessage(chat_id, sender_id)
  \/ \E p \in Procs, chat_id \in 1..(MaxChats + 1) : Quiet /\ EndChatFindChat(p, chat_id)
  \/ \E p \in Procs : EndChatFindCreator(p)
  \/ \E p \in Procs : EndChatFindCustomer(p)
  \/ \E p \in Procs : EndChatUpdateCustomer(p)
  \/ \E p \in Procs : EndChatUpdateCreator(p)
  \/ \E p \in Procs : EndChatPayCustomer(p)
  \/ \E p \in Procs : EndChatPayCreator(p)
  \/ \E p \in Procs : EndChatUpdateChat(p)
  \/ \E p \in Procs : EndChatFindUpdated(p)
  \/ \E p \in Procs : Respond(p)
  \/ Tick

SpecSeq == Init /\ [][NextSeq]_vars

\* ------------------------------------------------------ derived measures

\* The payment documents of one chat's settlement.
SettlementRecords(chat_id) ==
  LET S == {e \in BagToSet(payment) : e.kind = "settlement" /\ e.chat_id = Some(chat_id)}
  IN  BagCardinality([e \in S |-> payment[e]])

RECURSIVE SumAmounts(_)
SumAmounts(S) ==
  IF S = {} THEN 0
  ELSE LET e == CHOOSE x \in S : TRUE
       IN  e.amount_eur * CopiesIn(e, payment) + SumAmounts(S \ {e})

\* The sum of the amounts of a user's payment documents.
Ledger(user_id) == SumAmounts({e \in BagToSet(payment) : e.user_id = user_id})

RECURSIVE SumCosts(_, _)
SumCosts(user_id, ids) ==
  IF ids = {} THEN 0
  ELSE LET c == CHOOSE x \in ids : TRUE
           cost == The(chats[c].total_cost_eur)
       IN  (IF chats[c].creator_id = user_id THEN cost ELSE 0)
           - (IF chats[c].customer_id = user_id THEN cost ELSE 0)
           + SumCosts(user_id, ids \ {c})

\* What the ended chats' costs give (+) or take (-) from a user, each once.
SettledOnce(user_id) ==
  SumCosts(user_id, {c \in DOMAIN chats : chats[c].status = "ended"})

Debit(chat_id, chat, cost) == Payment(chat.customer_id, "settlement", 0 - cost, Some(chat_id))

Credit(chat_id, chat, cost) == Payment(chat.creator_id, "settlement", cost, Some(chat_id))

\* m = max(1, ceil(s / 60)), stated without the division
IsMinutes(m, s) == m >= 1 /\ 60 * m >= s /\ (m = 1 \/ 60 * (m - 1) < s)

\* c is x at two decimals: a whole number of cents, nearest to x
IsRounded(c, x) == c % 10 = 0 /\ c - x <= 5 /\ x - c <= 5

\* p's call is an end_chat that found the chat active and settled it
Settled(p) ==
  /\ pc[p] = "done"
  /\ loc[p].op = "end_chat"
  /\ ret[p].code = 200
  /\ loc[p].chat # None
  /\ The(loc[p].chat).status = "active"

\* ---------------------------------------------------------------- claims

\* C1: whatever the interleaving of concurrent end_chat calls on an active
\* chat, once all calls have finished the chat has exactly two settlement
\* records (one debit, one credit of its cost) and, no top-up having been
\* made, each wallet has moved by the chat's cost exactly once.
C1_ExactlyOneSettlement ==
  Quiet =>
    /\ \A c \in DOMAIN chats :
         chats[c].status = "ended" =>
           /\ SettlementRecords(c) = 2
           /\ CopiesIn(Debit(c, chats[c], The(chats[c].total_cost_eur)), payment) = 1
           /\ CopiesIn(Credit(c, chats[c], The(chats[c].total_cost_eur)), payment) = 1
    /\ topups = 0 => \A u \in DOMAIN users : users[u].wallet_eur = SettledOnce(u)

\* C2: an end_chat call on a chat that is already ended returns the stored
\* document (its total_minutes and total_cost_eur) and writes nothing; an
\* ended chat's document and its two settlement records never change again,
\* however much later and however often the call is repeated.
C2_EndedIsNoOp ==
  [][\A c \in DOMAIN chats :
       chats[c].status = "ended" =>
         /\ chats'[c] = chats[c]
         /\ SettlementRecords(c) = 2
         /\ SettlementRecords(c)' = 2
         /\ \A p \in Procs :
              (pc[p] = "idle" /\ loc'[p].op = "end_chat" /\ loc'[p].chat_id = c) =>
                /\ pc'[p] = "done"
                /\ ret'[p] = [code |-> 200, chat |-> Some(chats[c]), wallet_eur |-> None]
                /\ The(ret'[p].chat).total_minutes # None
                /\ The(ret'[p].chat).total_cost_eur # None
                /\ UNCHANGED store
         /\ \A p \in Procs :
              (loc[p].op = "end_chat" /\ loc[p].chat_id = c) => UNCHANGED store
    ]_vars

\* C2 witness: a repeated end_chat, made after time has passed since the
\* chat ended, has returned the stored result.
C2_Witness ==
  \E p \in Procs :
    /\ pc[p] = "done"
    /\ loc[p].op = "end_chat"
    /\ loc[p].chat # None
    /\ The(loc[p].chat).status = "ended"
    /\ clock > The(The(loc[p].chat).ended_at)
    /\ ret[p].code = 200
    /\ The(ret[p].chat).total_minutes = The(loc[p].chat).total_minutes

\* C3: when end_chat evaluates an active chat whose start parses, s seconds
\* after the start (s may be 0 or negative), the minutes are
\* max(1, ceil(s/60)) and the cost is minutes * rate at two decimals; these
\* are the values stored on the chat.  150 s at 1.20 is (3, 3.60); 10 s at
\* 0.90 is (1, 0.90).
C3_MinutesAndCost ==
  [][\A p \in Procs :
       /\ (pc[p] = "idle" /\ pc'[p] = "ec_find_creator") =>
            LET chat == chats[loc'[p].chat_id]
                s == clock - chat.started_at.t
                r == chat.rate_eur_per_min
                m == loc'[p].minutes
                cost == loc'[p].total_cost
            IN  chat.started_at.kind = "aware" =>
                  /\ IsMinutes(m, s)
                  /\ IsRounded(cost, m * r)
                  /\ (s = 150 /\ r = 1200) => (m = 3 /\ cost = 3600)
                  /\ (s = 10 /\ r = 900) => (m = 1 /\ cost = 900)
                  /\ s <= 0 => m = 1
       /\ (pc[p] = "ec_update_chat" /\ pc'[p] = "ec_find_updated") =>
            /\ chats'[loc[p].chat_id].total_minutes = Some(loc[p].minutes)
            /\ chats'[loc[p].chat_id].total_cost_eur = Some(loc[p].total_cost)
    ]_vars

\* C3 witness: a chat at 1.20 per minute was settled 150 s after its start
\* for 3 minutes and 3.60.
C3_Witness ==
  \E p \in Procs :
    /\ Settled(p)
    /\ loc[p].elapsed = 150
    /\ The(loc[p].chat).rate_eur_per_min = 1200
    /\ The(ret[p].chat).total_minutes = Some(3)
    /\ The(ret[p].chat).total_cost_eur = Some(3600)

\* C4: a completed settlement of cost c has produced exactly two settlement
\* records for the chat, -c for the customer and +c for the creator, has
\* lowered the customer's wallet by c and raised the creator's by c, so the
\* two wallets' sum is what it was.
C4_DebitEqualsCredit ==
  \A p \in Procs :
    Settled(p) =>
      LET chat == The(loc[p].chat)
          c == loc[p].total_cost
          cust0 == The(loc[p].customer).wallet_eur
          crea0 == The(loc[p].creator).wallet_eur
      IN  /\ SettlementRecords(loc[p].chat_id) = 2
          /\ CopiesIn(Debit(loc[p].chat_id, chat, c), payment) = 1
          /\ CopiesIn(Credit(loc[p].chat_id, chat, c), payment) = 1
          /\ users[chat.customer_id].wallet_eur = cust0 - c
          /\ users[chat.creator_id].wallet_eur = crea0 + c
          /\ users[chat.customer_id].wallet_eur + users[chat.creator_id].wallet_eur
               = cust0 + crea0

\* C4 witness: a settlement of a non-zero cost has completed.
C4_Witness ==
  \E p \in Procs :
    /\ Settled(p)
    /\ loc[p].total_cost > 0
    /\ users[The(loc[p].chat).creator_id].wallet_eur > 0

\* C5: in every execution a chat's status only goes from active to ended,
\* once; total_minutes and total_cost_eur are unset while it is active, are
\* written on that transition and never change afterwards; no chat is ever
\* deleted or made active again.
C5_EndedOnce ==
  [][\A c \in DOMAIN chats :
       /\ c \in DOMAIN chats'
       /\ chats[c].status = "active" =>
            /\ chats[c].total_minutes = None
            /\ chats[c].total_cost_eur = None
       /\ chats[c].status = "ended" => chats'[c] = chats[c]
       /\ chats'[c] # chats[c] =>
            /\ chats[c].status = "active"
            /\ chats'[c].status = "ended"
            /\ chats'[c].total_minutes # None
            /\ chats'[c].total_cost_eur # None
    ]_vars

\* C6 (as claimed): a top-up of a > 0 for an existing user sets the balance
\* to the old balance + a.
C6_TopupAddsExactly ==
  [][\A p \in Procs :
       (pc[p] = "tu_update" /\ pc'[p] = "tu_pay") =>
         users'[loc[p].user_id].wallet_eur
           = users[loc[p].user_id].wallet_eur + loc[p].amount_eur
    ]_vars

\* C6 (amended): wallet_topup is credit-only.  An amount <= 0 is rejected
\* (400) and an unknown user is rejected (404), nothing written.  An amount
\* a > 0 for an existing user sets that user's balance to the old balance
\* + a rounded to two decimals, changes no other balance, adds one topup
\* record of amount a and returns the new balance.
C6_TopupCreditOnly ==
  [][\A p \in Procs :
       /\ (pc[p] = "idle" /\ loc'[p].op = "wallet_topup") =>
            LET a == loc'[p].amount_eur
                uid == loc'[p].user_id
            IN  /\ UNCHANGED store
                /\ a <= 0 => (pc'[p] = "done" /\ ret'[p].code = 400)
                /\ (a > 0 /\ uid \notin DOMAIN users) => (pc'[p] = "done" /\ ret'[p].code = 404)
                /\ (a > 0 /\ uid \in DOMAIN users) => pc'[p] = "tu_update"
       /\ (pc[p] = "tu_update" /\ pc'[p] # pc[p]) =>
            /\ pc'[p] = "tu_pay"
            /\ loc[p].amount_eur > 0
            /\ users' = [users EXCEPT ![loc[p].user_id].wallet_eur =
                           Round2(users[loc[p].user_id].wallet_eur + loc[p].amount_eur)]
            /\ users'[loc[p].user_id].wallet_eur >= users[loc[p].user_id].wallet_eur
            /\ UNCHANGED <<chats, payment>>
       /\ (pc[p] = "tu_pay" /\ pc'[p] # pc[p]) =>
            /\ pc'[p] = "done"
            /\ payment' = payment (+) SetToBag({Payment(loc[p].user_id, "topup",
                                                        loc[p].amount_eur, None)})
            /\ ret'[p] = [code |-> 200, chat |-> None,
                          wallet_eur |-> Some(users[loc[p].user_id].wallet_eur)]
            /\ UNCHANGED <<users, chats>>
    ]_vars

\* C6 witness: 25.00 was topped up on a zero balance and a settlement of
\* 3.60 has left 21.40.
C6_Witness ==
  /\ Quiet
  /\ users["cu"].wallet_eur = 21400
  /\ CopiesIn(Payment("cu", "topup", 25000, None), payment) = 1
  /\ \E c \in DOMAIN chats :
       CopiesIn(Payment("cu", "settlement", 0 - 3600, Some(c)), payment) = 1

C8_NeverFailsOnStartTime ==
  \A p \in Procs :
    ( /\ pc[p] = "done"
      /\ loc[p].op = "end_chat"
      /\ loc[p].chat # None
      /\ The(loc[p].chat).status = "active"
      /\ The(loc[p].chat).creator_id \in DOMAIN users
      /\ The(loc[p].chat).customer_id \in DOMAIN users ) =>
        /\ ret[p].code = 200
        /\ The(loc[p].chat).started_at.kind \in {"none", "number", "text"} =>
             /\ The(ret[p].chat).total_minutes = Some(1)
             /\ The(ret[p].chat).total_cost_eur
                  = Some(Round2(The(loc[p].chat).rate_eur_per_min))

\* C9: whenever no call is in flight, every user's wallet balance is the sum
\* of the amounts of that user's payment records.  Stated for the runs in
\* which every recorded amount is a whole number of cents, where rounding
\* plays no part: the claim covers them.
C9_LedgerConsistent ==
  (Quiet /\ \A e \in BagToSet(payment) : e.amount_eur % 10 = 0) =>
    \A u \in DOMAIN users : users[u].wallet_eur = Ledger(u)

\* C10: an end_chat that fails (unknown chat id: 404; creator or customer
\* document absent: 400) has written nothing: no step of it up to the error
\* changes a wallet, a payment record or the chat, and a chat whose creator
\* or customer is absent stays active without end time, minutes or cost and
\* without settlement records.
C10_FailedEndChatWritesNothing ==
  /\ [](\A c \in DOMAIN chats :
          (chats[c].creator_id \notin DOMAIN users \/ chats[c].customer_id \notin DOMAIN users) =>
            /\ chats[c] = Chat(chats[c].creator_id, chats[c].customer_id,
                               chats[c].rate_eur_per_min, chats[c].started_at)
            /\ SettlementRecords(c) = 0)
  /\ [][\A p \in Procs :
          /\ (loc'[p].op = "end_chat" /\ pc'[p] # pc[p]
                /\ pc'[p] \in {"ec_find_creator", "ec_find_customer", "ec_update_customer"}) =>
               UNCHANGED store
          /\ (loc'[p].op = "end_chat" /\ pc'[p] = "done" /\ pc[p] # "done"
                /\ ret'[p].code # 200) =>
               /\ UNCHANGED store
               /\ pc[p] \in {"idle", "ec_find_customer"}
          /\ (pc[p] = "idle" /\ loc'[p].op = "end_chat"
                /\ loc'[p].chat_id \notin DOMAIN chats) =>
               (pc'[p] = "done" /\ ret'[p].code = 404)
          /\ (pc[p] = "ec_find_customer" /\ pc'[p] # pc[p]
                /\ ( The(loc[p].chat).creator_id \notin DOMAIN users
                     \/ The(loc[p].chat).customer_id \notin DOMAIN users )) =>
               (pc'[p] = "done" /\ ret'[p].code = 400)
       ]_vars

\* C10 witness: an end_chat on a chat whose customer document is absent has
\* answered 400 with the store untouched.
C10_Witness ==
  \E p \in Procs :
    /\ pc[p] = "done"
    /\ loc[p].op = "end_chat"
    /\ ret[p].code = 400
    /\ loc[p].creator # None
    /\ loc[p].customer = None
    /\ payment = EmptyBag
    /\ chats[loc[p].chat_id].status = "active"

====
